---- MODULE Spec2Model ----
(***************************************************************************)
(* Model of functions/main.py: the scheduled make_purchases job.           *)
(* Every invocation constructs a CoinbaseTrader, reads the USD balance,    *)
(* applies the balance gate, buys each planned asset in plan order and     *)
(* e-mails a summary.  The brokerage, the e-mail transport, the secrets    *)
(* and the wall clock are the environment: their answers are chosen        *)
(* nondeterministically from small sets.                                   *)
(***************************************************************************)
EXTENDS Integers, Sequences, FiniteSets, TLC

\* ------------------------------------------------------------------ bounds
\* Number of invocations of make_purchases the platform performs.
MaxRuns == 2
\* The wall clock runs from tick 0 to tick MaxTicks.
MaxTicks == 2

\* The wall clock is finer than the second that strftime('%S') keeps.
TicksPerSecond == 2

\* ------------------------------------------------------------ environment
\* What SecretParam.value can hand to make_purchases: "" when the secret is
\* absent or empty, the secret otherwise.
ApiKeyValues == {"", "key"}
ApiSecretValues == {"", "secret"}

\* One account of the get_accounts answer.  balance is "num" (a parsable
\* 'value'), "missing" (no available_balance/value entry) or "bad" (a value
\* float() rejects).
Account(currency, balance, value) ==
    [currency |-> currency, balance |-> balance, value |-> value]

\* The answers of client.get_accounts(limit=250): the call raises, or it
\* returns a list of accounts.
AccountsResponses ==
    { [raises |-> TRUE, accounts |-> <<>>],
      [raises |-> FALSE, accounts |-> <<>>],
      [raises |-> FALSE, accounts |-> <<Account("BTC", "num", 300)>>],
      [raises |-> FALSE, accounts |-> <<Account("USD", "missing", 0)>>],
      [raises |-> FALSE, accounts |-> <<Account("USD", "bad", 0)>>] }
    \cup { [raises |-> FALSE,
            accounts |-> <<Account("BTC", "num", 300), Account("USD", "num", v)>>]
           : v \in {0, 150, 199, 200, 250} }

\* The answers of client.market_order_buy(...).to_dict(): either call raises,
\* or the order record comes back, with or without a 'success' entry.
BrokerResponses ==
    { [raises |-> TRUE, error |-> "timeout", order |-> [order_id |-> "o"]],
      [raises |-> FALSE, error |-> "", order |-> [order_id |-> "o"]],
      [raises |-> FALSE, error |-> "", order |-> [order_id |-> "o", success |-> TRUE]],
      [raises |-> FALSE, error |-> "", order |-> [order_id |-> "o", success |-> FALSE]] }

\* The outcomes of SendGridAPIClient(...).send(message).
TransportOutcomes == {"ok", "fail"}

\* ----------------------------------------------------------------- program
\* asset_amounts, in the dict's insertion (= iteration) order.
asset_amounts ==
    << [asset |-> "BTC", amount_usd |-> 100],
       [asset |-> "ETH", amount_usd |-> 100] >>

RECURSIVE SumAmounts(_)
SumAmounts(plan) ==
    IF plan = <<>> THEN 0 ELSE Head(plan).amount_usd + SumAmounts(Tail(plan))

\* total_required = sum(asset_amounts.values())
total_required == SumAmounts(asset_amounts)

\* Variant of CoinbaseTrader.__init__ that rejects only when both are missing.
CoinbaseTrader_init_anyOne(api_key, api_secret) ==
    IF api_key = "" /\ api_secret = "" THEN "ValueError" ELSE "none"

\* CoinbaseTrader.__init__: the exception it raises, "none" when it returns.
\* RESTClient accepts any pair of non-empty credentials.
CoinbaseTrader_init(api_key, api_secret) ==
    IF api_key = "" \/ api_secret = "" THEN "ValueError" ELSE "none"

\* The except clause of make_purchases' initialisation: only ValueError.
InitCatches(exc) == exc = "ValueError"

\* The scan of get_account_balance over accounts_dict['accounts']: the first
\* USD account decides; float() of a bad value raises into the except branch.
RECURSIVE ScanAccounts(_)
ScanAccounts(accounts) ==
    IF accounts = <<>> THEN 0
    ELSE IF Head(accounts).currency = "USD"
         THEN CASE Head(accounts).balance = "num" -> Head(accounts).value
                [] Head(accounts).balance = "missing" -> 0
                [] OTHER -> 0
         ELSE ScanAccounts(Tail(accounts))

\* Variant of get_account_balance that does not filter on the currency.
get_account_balance_firstAccount(response) ==
    IF response.raises \/ response.accounts = <<>> THEN 0
    ELSE Head(response.accounts).value

\* get_account_balance: 0 from the except branch, the scan's result otherwise.
get_account_balance(response) ==
    IF response.raises THEN 0 ELSE ScanAccounts(response.accounts)

\* Variants of the gate: per asset, non-strict, and never failing.
InsufficientFunds_firstAsset(available_balance, required) ==
    available_balance < asset_amounts[1].amount_usd

InsufficientFunds_orEqual(available_balance, required) ==
    available_balance <= required

InsufficientFunds_never(available_balance, required) ==
    available_balance < 0

\* The gate: available_balance < total_required.
InsufficientFunds(available_balance, required) ==
    available_balance < required

\* datetime.now().strftime('%Y%m%d%H%M%S'): the clock cut to the second.
strftime(t) == t \div TicksPerSecond

\* f"{timestamp}_{asset_name}"; the timestamp has a fixed width, so the
\* string determines both parts.
unique_order_id(t, asset_name) ==
    [timestamp |-> strftime(t), asset_name |-> asset_name]

\* Variant of market_buy without the except clause.
market_buy_noCatch(amount_usd, product_id, asset_name, t, broker) ==
    [ request |-> [client_order_id |-> unique_order_id(t, asset_name),
                   product_id |-> product_id,
                   quote_size |-> amount_usd],
      raised |-> broker.raises,
      isdict |-> ~broker.raises,
      dict   |-> broker.order,
      str    |-> [product_id |-> product_id, error |-> broker.error] ]

\* market_buy: the request it submits and what it returns, a dict (the order
\* record) or a str (the failure description); raised tells whether an
\* exception leaves the method.
market_buy(amount_usd, product_id, asset_name, t, broker) ==
    [ request |-> [client_order_id |-> unique_order_id(t, asset_name),
                   product_id |-> product_id,
                   quote_size |-> amount_usd],
      raised |-> FALSE,
      isdict |-> ~broker.raises,
      dict   |-> broker.order,
      str    |-> [product_id |-> product_id, error |-> broker.error] ]

\* f"{asset}-USD"
ProductId(asset) == [base |-> asset, quote |-> "USD"]

\* Variant of the summary line with result.get('success', True).
ResultLine_defaultTrue(result, asset, amount_usd) ==
    IF result.isdict
    THEN [kind |-> "Bought", asset |-> asset, amount_usd |-> amount_usd,
          success |-> IF "success" \in DOMAIN result.dict
                      THEN result.dict.success ELSE TRUE]
    ELSE [kind |-> "Purchase failed", asset |-> asset, amount_usd |-> amount_usd,
          success |-> FALSE]

\* The line make_purchases appends for one result.
ResultLine(result, asset, amount_usd) ==
    IF result.isdict
    THEN [kind |-> "Bought", asset |-> asset, amount_usd |-> amount_usd,
          success |-> IF "success" \in DOMAIN result.dict
                      THEN result.dict.success ELSE FALSE]
    ELSE [kind |-> "Purchase failed", asset |-> asset, amount_usd |-> amount_usd,
          success |-> FALSE]

\* Variant of the loop that leaves the last asset out.
LoopHasNext_stopsEarly(i) == i < Len(asset_amounts)

\* The for loop over asset_amounts.items(): whether an asset is left at i.
LoopHasNext(i) == i <= Len(asset_amounts)

\* Variant of send_email without the except clause.
send_email_noCatch(subject, html_content, transport) ==
    [ message |-> [subject |-> subject, html_content |-> html_content],
      delivered |-> transport = "ok",
      raised |-> transport # "ok" ]

\* send_email: the message is built (Mail takes any subject, content and
\* addresses, None included), then the transport is used inside try/except;
\* raised tells whether an exception leaves the function.
send_email(subject, html_content, transport) ==
    [ message |-> [subject |-> subject, html_content |-> html_content],
      delivered |-> transport = "ok",
      raised |-> FALSE ]

\* ------------------------------------------------------------------- state
\* An invocation runs to completion before the platform invokes the function
\* again; its locals do not outlive it.  What outlives it is what the broker
\* has received.
VARIABLES
    now,                \* the wall clock, in ticks
    run,                \* the number of the current invocation, 0 before any
    pc,                 \* idle, balance, buy, report, returned, raised
    api_key,            \* COINBASE_API_KEY.value
    api_secret,         \* COINBASE_API_SECRET.value
    accounts,           \* the answers get_accounts gave to this invocation
    available_balance,  \* the local of make_purchases
    gateEvals,          \* evaluations of the gate condition in this invocation
    i,                  \* position of the for loop in asset_amounts
    purchase_results,   \* the local list of summary lines
    attempts,           \* the market_buy calls of this invocation, in order
    emails,             \* the send_email calls of this invocation, in order
    orders              \* every submission made to the broker, by any invocation

vars == << now, run, pc, api_key, api_secret, accounts, available_balance,
           gateEvals, i, purchase_results, attempts, emails, orders >>

Init ==
    /\ now = 0
    /\ run = 0
    /\ pc = "idle"
    /\ api_key = ""
    /\ api_secret = ""
    /\ accounts = <<>>
    /\ available_balance = 0
    /\ gateEvals = 0
    /\ i = 1
    /\ purchase_results = <<>>
    /\ attempts = <<>>
    /\ emails = <<>>
    /\ orders = {}

\* The wall clock advances.
Tick ==
    /\ now < MaxTicks
    /\ now' = now + 1
    /\ UNCHANGED << run, pc, api_key, api_secret, accounts, available_balance,
                    gateEvals, i, purchase_results, attempts, emails, orders >>

\* The platform invokes make_purchases: the secrets are read and the trader
\* is constructed (the try block at the head of make_purchases).
Invoke ==
    /\ pc \in {"idle", "returned", "raised"}
    /\ run < MaxRuns
    /\ run' = run + 1
    /\ \E k \in ApiKeyValues, s \in ApiSecretValues :
         LET exc == CoinbaseTrader_init(k, s) IN
           /\ api_key' = k
           /\ api_secret' = s
           /\ pc' = IF exc = "none" THEN "balance"
                    ELSE IF InitCatches(exc) THEN "returned"
                    ELSE "raised"
    /\ accounts' = <<>>
    /\ available_balance' = 0
    /\ gateEvals' = 0
    /\ i' = 1
    /\ purchase_results' = <<>>
    /\ attempts' = <<>>
    /\ emails' = <<>>
    /\ UNCHANGED << now, orders >>

\* The balance read and the gate.
CheckBalance ==
    /\ pc = "balance"
    /\ \E response \in AccountsResponses :
         LET balance == get_account_balance(response) IN
           /\ accounts' = Append(accounts, response)
           /\ available_balance' = balance
           /\ gateEvals' = gateEvals + 1
           /\ pc' = IF InsufficientFunds(balance, total_required) THEN "returned"
                    ELSE IF LoopHasNext(i) THEN "buy"
                    ELSE "report"
    /\ UNCHANGED << now, run, api_key, api_secret, i, purchase_results,
                    attempts, emails, orders >>

\* One iteration of the for loop: one market_buy call and its summary line.
Buy ==
    /\ pc = "buy"
    /\ \E broker \in BrokerResponses :
         LET asset == asset_amounts[i].asset
             amount_usd == asset_amounts[i].amount_usd
             result == market_buy(amount_usd, ProductId(asset), asset, now, broker)
         IN
           /\ attempts' = Append(attempts, [asset |-> asset,
                                            request |-> result.request,
                                            error |-> broker.raises,
                                            order |-> broker.order])
           /\ orders' = orders \cup
                          {[run |-> run, asset_name |-> asset,
                            client_order_id |-> result.request.client_order_id]}
           /\ IF result.raised
              THEN /\ pc' = "raised"
                   /\ UNCHANGED << i, purchase_results >>
              ELSE /\ purchase_results' =
                        Append(purchase_results, ResultLine(result, asset, amount_usd))
                   /\ i' = i + 1
                   /\ pc' = IF LoopHasNext(i + 1) THEN "buy" ELSE "report"
    /\ UNCHANGED << now, run, api_key, api_secret, accounts, available_balance,
                    gateEvals, emails >>

\* The summary is built and handed to send_email; make_purchases returns.
Report ==
    /\ pc = "report"
    /\ \E transport \in TransportOutcomes :
         LET content == [available_balance |-> available_balance,
                         lines |-> purchase_results]
             sent == send_email("Crypto Purchase Summary", content, transport)
         IN
           /\ emails' = Append(emails, [message |-> sent.message,
                                        delivered |-> sent.delivered])
           /\ pc' = IF sent.raised THEN "raised" ELSE "returned"
    /\ UNCHANGED << now, run, api_key, api_secret, accounts, available_balance,
                    gateEvals, i, purchase_results, attempts, orders >>

Next ==
    \/ Tick
    \/ Invoke
    \/ CheckBalance
    \/ Buy
    \/ Report

Spec == Init /\ [][Next]_vars

\* A started invocation is run to completion: every call it makes returns.
FairSpec == Spec /\ WF_vars(CheckBalance) /\ WF_vars(Buy) /\ WF_vars(Report)

\* ------------------------------------------------------------ observations
\* The balance read of the current invocation has been made.
BalanceRead == accounts # <<>>

\* The answer holds no account in the target currency.
NoUsdAccount(response) ==
    \A k \in DOMAIN response.accounts : response.accounts[k].currency # "USD"

\* The assets of the market_buy calls made so far, in call order.
AttemptedAssets == [k \in DOMAIN attempts |-> attempts[k].asset]

\* The assets of the plan, in plan order.
PlannedAssets == [k \in DOMAIN asset_amounts |-> asset_amounts[k].asset]

\* The broker accepted the order of attempt a.
PlacedSuccessfully(a) ==
    /\ ~a.error
    /\ "success" \in DOMAIN a.order
    /\ a.order.success

\* ------------------------------------------------------------------ claims
\* C1: whenever the balance that was read is below the sum of the planned
\* amounts, the invocation has submitted no order and sent no notification,
\* even when the balance would cover the first asset alone.
C1_GateAllOrNothing ==
    (BalanceRead /\ SumAmounts(asset_amounts) > available_balance)
        => /\ attempts = <<>>
           /\ emails = <<>>
           /\ pc = "returned"

C1_Witness ==
    /\ BalanceRead
    /\ pc = "returned"
    /\ available_balance >= asset_amounts[1].amount_usd
    /\ available_balance < SumAmounts(asset_amounts)
    /\ attempts = <<>>

\* C2: when the sum of the planned amounts is at most the balance read
\* (equality included), the order attempts made are a prefix of the plan, one
\* per asset in plan order, no attempt ends the invocation, and once the loop
\* is over there is exactly one attempt per planned asset.
C2_OneAttemptPerAsset ==
    (BalanceRead /\ SumAmounts(asset_amounts) <= available_balance)
        => /\ pc \in {"buy", "report", "returned"}
           /\ Len(attempts) <= Len(asset_amounts)
           /\ AttemptedAssets = SubSeq(PlannedAssets, 1, Len(attempts))
           /\ pc = "buy" => Len(attempts) < Len(asset_amounts)
           /\ pc \in {"report", "returned"} => AttemptedAssets = PlannedAssets

C2_Witness ==
    /\ pc = "returned"
    /\ available_balance = SumAmounts(asset_amounts)
    /\ Len(attempts) = 2
    /\ attempts[1].error
    /\ ~attempts[2].error

\* C3: an invocation started with an empty key or an empty secret has ended
\* without a balance read, an order attempt or a notification.
C3_MissingCredentials ==
    (pc # "idle" /\ (api_key = "" \/ api_secret = ""))
        => /\ pc = "returned"
           /\ accounts = <<>>
           /\ gateEvals = 0
           /\ attempts = <<>>
           /\ emails = <<>>

C3_Witness ==
    /\ pc = "returned"
    /\ api_key = "key"
    /\ api_secret = ""

\* C4: when get_accounts raised or returned no USD account, the balance is 0,
\* the gate fails for the (non-empty, positive) plan and no order is made.
C4_BalanceReadFailure ==
    (BalanceRead /\ (accounts[1].raises \/ NoUsdAccount(accounts[1])))
        => /\ available_balance = 0
           /\ SumAmounts(asset_amounts) > 0
           /\ pc = "returned"
           /\ attempts = <<>>

C4_Witness ==
    /\ BalanceRead
    /\ ~accounts[1].raises
    /\ accounts[1].accounts # <<>>
    /\ NoUsdAccount(accounts[1])
    /\ pc = "returned"

\* C5: the step that sends the notification, whatever the transport does,
\* leaves the orders submitted and their recorded results as they are and
\* ends with make_purchases returning normally.
C5_NotificationFailureSwallowed ==
    [][ (pc = "report" /\ emails' # emails)
            => /\ pc' = "returned"
               /\ attempts' = attempts
               /\ purchase_results' = purchase_results
               /\ orders' = orders
               /\ Len(emails') = Len(emails) + 1
               /\ emails'[Len(emails')].message.html_content.lines = purchase_results
      ]_vars

C5_Witness ==
    /\ pc = "returned"
    /\ emails # <<>>
    /\ ~emails[1].delivered
    /\ Len(attempts) = Len(asset_amounts)

\* C6: any two submissions that differ in their invocation or in their asset
\* carry different client order identifiers.
C6_UniqueOrderIds ==
    \A o1 \in orders, o2 \in orders :
        (o1.run # o2.run \/ o1.asset_name # o2.asset_name)
            => o1.client_order_id # o2.client_order_id

\* C7: no exception leaves make_purchases, and every started invocation
\* returns.
C7_AlwaysReturnsNormally ==
    /\ [](pc # "raised")
    /\ (pc \in {"balance", "buy", "report"}) ~> (pc = "returned")

C7_Witness ==
    /\ pc = "returned"
    /\ emails # <<>>
    /\ ~emails[1].delivered
    /\ \E k \in DOMAIN attempts : attempts[k].error

\* C8: the summary handed to the notifier has one line per planned asset, in
\* plan order; the line is a failure line exactly when the attempt raised,
\* and otherwise a Bought line with the record's success flag, False when the
\* record has none.
C8_SummaryLines ==
    \A e \in DOMAIN emails :
        LET lines == emails[e].message.html_content.lines IN
          /\ Len(lines) = Len(asset_amounts)
          /\ Len(attempts) = Len(asset_amounts)
          /\ \A k \in DOMAIN lines :
               /\ lines[k].asset = asset_amounts[k].asset
               /\ lines[k].amount_usd = asset_amounts[k].amount_usd
               /\ (lines[k].kind = "Purchase failed") = attempts[k].error
               /\ (lines[k].kind = "Bought") = ~attempts[k].error
               /\ ~attempts[k].error =>
                    lines[k].success =
                        ("success" \in DOMAIN attempts[k].order
                            /\ attempts[k].order.success)

C8_Witness ==
    /\ emails # <<>>
    /\ attempts[1].error
    /\ ~attempts[2].error
    /\ "success" \notin DOMAIN attempts[2].order

\* C9 as stated: an e-mail is sent only if at least one order of the run was
\* placed successfully.
C9_EmailOnlyAfterSuccess ==
    emails # <<>> => \E k \in DOMAIN attempts : PlacedSuccessfully(attempts[k])

\* C9 as amended: an e-mail is sent only in a run that was initialised, passed
\* the balance gate and attempted every planned order, whether or not any
\* order was placed successfully.
C9_EmailOnlyAfterGate ==
    emails # <<>>
        => /\ api_key # "" /\ api_secret # ""
           /\ BalanceRead
           /\ available_balance >= SumAmounts(asset_amounts)
           /\ Len(attempts) = Len(asset_amounts)

C9_Witness ==
    /\ emails # <<>>
    /\ emails[1].delivered
    /\ \A k \in DOMAIN attempts : ~PlacedSuccessfully(attempts[k])

\* C10: within an invocation the balance is read once and before any order,
\* the gate is evaluated once and not between orders, at most one
\* notification is sent, and only after the last planned order attempt.
C10_StepOrder ==
    /\ [] /\ Len(accounts) <= 1
          /\ gateEvals = Len(accounts)
          /\ Len(emails) <= 1
          /\ attempts # <<>> => BalanceRead
          /\ emails # <<>> => /\ Len(attempts) = Len(asset_amounts)
                              /\ pc \in {"returned", "raised"}
    /\ [][ /\ attempts' # attempts /\ run' = run =>
                /\ accounts' = accounts
                /\ gateEvals' = gateEvals
                /\ available_balance' = available_balance
           /\ emails # <<>> /\ run' = run => attempts' = attempts /\ emails' = emails
       ]_vars

C10_Witness ==
    /\ pc = "returned"
    /\ Len(accounts) = 1
    /\ Len(attempts) = Len(asset_amounts)
    /\ Len(emails) = 1

====
